---- MODULE Spec2Model ----
(***************************************************************************)
(* Model of the ADB command layer of universal-android-debloater           *)
(* (crates/uad-core/src/adb.rs): the package-id validator, the staged      *)
(* command builder, its two backends and the output parsers; and of the    *)
(* URL-to-markdown conversion of package descriptions                      *)
(* (src/gui/widgets/description.rs).                                       *)
(*                                                                         *)
(* Text is modelled as a sequence of bytes.  An ASCII byte is written as   *)
(* the one-character string of its character ("a", ".", "\n"); a byte      *)
(* above 0x7F is written "xHH" ("xC3", "xA9").                             *)
(***************************************************************************)
EXTENDS Naturals, Integers, Sequences, FiniteSets, TLC

VARIABLES
    p_id,               \* PackageId::new: the candidate string
    pkg_pc,             \* PackageId::new: "idle" | "call" | "done"
    pkg_out,            \* PackageId::new: the returned Option<PackageId>
    stage,              \* type-state of the builder value: "none" | "root" | "shell" | "pm" | "done"
    backend,            \* ACommandState.backend
    device_serial,      \* ACommandState.device_serial: Option<String>
    debug_assertions,   \* cfg(debug_assertions) of the build
    op,                 \* the terminal operation that consumed the builder, with its arguments
    env,                \* what the ADB server, the device or the adb process answered
    log,                \* the transport commands the operation issued, in order
    result,             \* what the terminal operation returned
    calls,              \* the calls made on this builder value so far, constructor first
    description,        \* DescriptionContent::parse: the description string
    md_pc,              \* DescriptionContent::parse: "idle" | "call" | "done"
    markdown_text       \* DescriptionContent::parse: what convert_urls_to_markdown returned

pkg_vars == <<p_id, pkg_pc, pkg_out>>

builder_vars == <<stage, backend, device_serial, debug_assertions, op, env, log, result, calls>>

md_vars == <<description, md_pc, markdown_text>>

vars ==
    <<p_id, pkg_pc, pkg_out, stage, backend, device_serial, debug_assertions, op, env, log, result,
      calls, description, md_pc, markdown_text>>

----------------------------------------------------------------------------
(* Option<T> *)

None == <<>>

Some(x) == <<x>>

----------------------------------------------------------------------------
(* Bytes and text *)

LowerLetters ==
    {"a", "b", "c", "d", "e", "f", "g", "h", "i", "j", "k", "l", "m",
     "n", "o", "p", "q", "r", "s", "t", "u", "v", "w", "x", "y", "z"}

UpperLetters ==
    {"A", "B", "C", "D", "E", "F", "G", "H", "I", "J", "K", "L", "M",
     "N", "O", "P", "Q", "R", "S", "T", "U", "V", "W", "X", "Y", "Z"}

Digits == {"0", "1", "2", "3", "4", "5", "6", "7", "8", "9"}

\* u8::is_ascii_alphabetic
is_ascii_alphabetic(b) == b \in LowerLetters \cup UpperLetters

\* u8::is_ascii_digit
is_ascii_digit(b) == b \in Digits

\* crate::utils::is_all_w_c: every byte is an ASCII word character
\* (letter, digit or underscore)
is_all_w_c(s) ==
    \A i \in 1..Len(s) : is_ascii_alphabetic(s[i]) \/ is_ascii_digit(s[i]) \/ s[i] = "_"

\* str::find(c): index of the first occurrence of byte c in s, 0 when there
\* is none
Find(s, c) ==
    IF \E i \in 1..Len(s) : s[i] = c
    THEN CHOOSE i \in 1..Len(s) : s[i] = c /\ \A j \in 1..(i - 1) : s[j] # c
    ELSE 0

\* str::split(c): the pieces between the occurrences of c; never empty
RECURSIVE Split(_, _)
Split(s, c) ==
    LET k == Find(s, c) IN
    IF k = 0 THEN <<s>>
    ELSE <<SubSeq(s, 1, k - 1)>> \o Split(SubSeq(s, k + 1, Len(s)), c)

\* char::is_whitespace, on the bytes of the model (0x0B is the vertical tab)
Whitespace == {" ", "\t", "\n", "\r", "\f", "x0B"}

is_whitespace(b) == b \in Whitespace

\* u8::is_ascii_whitespace: the vertical tab is not ASCII whitespace
AsciiWhitespace == {" ", "\t", "\n", "\r", "\f"}

is_ascii_whitespace(b) == b \in AsciiWhitespace

\* Index of the last byte of s that is not in ws, 0 when there is none
LastOutside(s, ws) ==
    IF \E i \in 1..Len(s) : s[i] \notin ws
    THEN CHOOSE i \in 1..Len(s) : s[i] \notin ws /\ \A j \in (i + 1)..Len(s) : s[j] \in ws
    ELSE 0

\* Index of the first byte of s that is not in ws, Len(s) + 1 when there is none
FirstOutside(s, ws) ==
    IF \E i \in 1..Len(s) : s[i] \notin ws
    THEN CHOOSE i \in 1..Len(s) : s[i] \notin ws /\ \A j \in 1..(i - 1) : s[j] \in ws
    ELSE Len(s) + 1

\* str::trim_end
trim_end(s) == SubSeq(s, 1, LastOutside(s, Whitespace))

\* str::trim_ascii_end
trim_ascii_end(s) == SubSeq(s, 1, LastOutside(s, AsciiWhitespace))

\* str::trim_ascii_start
trim_ascii_start(s) == SubSeq(s, FirstOutside(s, AsciiWhitespace), Len(s))

\* str::trim_ascii
trim_ascii(s) == trim_ascii_end(trim_ascii_start(s))

\* str::starts_with
starts_with(s, p) == Len(p) <= Len(s) /\ SubSeq(s, 1, Len(p)) = p

\* str::ends_with
ends_with(s, p) == Len(p) <= Len(s) /\ SubSeq(s, Len(s) - Len(p) + 1, Len(s)) = p

\* str::strip_prefix
strip_prefix(s, p) == IF starts_with(s, p) THEN Some(SubSeq(s, Len(p) + 1, Len(s))) ELSE None

\* str::strip_suffix
strip_suffix(s, p) == IF ends_with(s, p) THEN Some(SubSeq(s, 1, Len(s) - Len(p))) ELSE None

\* Option::unwrap_or
unwrap_or(o, d) == IF o = None THEN d ELSE o[1]

\* str::split_once(c)
split_once(s, c) ==
    LET k == Find(s, c) IN
    IF k = 0 THEN None ELSE Some(<<SubSeq(s, 1, k - 1), SubSeq(s, k + 1, Len(s))>>)

\* str::lines: a line ends at "\n" or "\r\n"; the last line needs no ending
RECURSIVE lines(_)
lines(s) ==
    IF Len(s) = 0 THEN <<>>
    ELSE LET k == Find(s, "\n") IN
         IF k = 0 THEN <<s>>
         ELSE LET ln == SubSeq(s, 1, k - 1) IN
              <<unwrap_or(strip_suffix(ln, <<"\r">>), ln)>> \o lines(SubSeq(s, k + 1, Len(s)))

\* str::split_whitespace: the maximal runs of non-whitespace
RECURSIVE split_whitespace_from(_, _, _)
split_whitespace_from(s, i, word) ==
    IF i > Len(s) THEN (IF word = <<>> THEN <<>> ELSE <<word>>)
    ELSE IF is_whitespace(s[i])
         THEN (IF word = <<>> THEN <<>> ELSE <<word>>) \o split_whitespace_from(s, i + 1, <<>>)
         ELSE split_whitespace_from(s, i + 1, Append(word, s[i]))

split_whitespace(s) == split_whitespace_from(s, 1, <<>>)

\* [&str]::join(sep)
RECURSIVE join(_, _)
join(parts, sep) ==
    IF Len(parts) = 0 THEN <<>>
    ELSE IF Len(parts) = 1 THEN parts[1]
    ELSE parts[1] \o sep \o join(Tail(parts), sep)

\* ASCII bytes that are neither letters nor digits
AsciiOther ==
    {" ", "\t", "\n", "\r", "\f", "x0B", "!", "'", "(", ")", "+", ",", "-", ".", "/", ":",
     ";", "?", "_", "{", "}"}

\* String::from_utf8_lossy on the bytes of the model: ASCII and the
\* two-byte character C3 A9 are kept, every other byte above 0x7F is an
\* invalid sequence and becomes U+FFFD (EF BF BD)
RECURSIVE from_utf8_lossy(_)
from_utf8_lossy(v) ==
    LET k == FirstOutside(v, LowerLetters \cup UpperLetters \cup Digits \cup AsciiOther) IN
    IF k > Len(v) THEN v
    ELSE IF v[k] = "xC3" /\ Len(v) > k /\ v[k + 1] = "xA9"
         THEN SubSeq(v, 1, k + 1) \o from_utf8_lossy(SubSeq(v, k + 2, Len(v)))
    ELSE SubSeq(v, 1, k - 1) \o <<"xEF", "xBF", "xBD">> \o from_utf8_lossy(SubSeq(v, k + 1, Len(v)))

to_trimmed_utf8(v) == trim_end(from_utf8_lossy(v))

DigitValue(c) ==
    CASE c = "0" -> 0 [] c = "1" -> 1 [] c = "2" -> 2 [] c = "3" -> 3 [] c = "4" -> 4
      [] c = "5" -> 5 [] c = "6" -> 6 [] c = "7" -> 7 [] c = "8" -> 8 [] c = "9" -> 9

\* u16::MAX
U16_MAX == 65535

\* Digits of an unsigned number, most significant first, accumulated with
\* checked arithmetic: None on a non-digit or on overflow of u16
RECURSIVE parse_digits(_, _, _)
parse_digits(s, i, acc) ==
    IF i > Len(s) THEN Some(acc)
    ELSE IF ~is_ascii_digit(s[i]) THEN None
    ELSE IF acc * 10 + DigitValue(s[i]) > U16_MAX THEN None
    ELSE parse_digits(s, i + 1, acc * 10 + DigitValue(s[i]))

\* <u16 as FromStr>::from_str: an optional "+", then at least one digit
parse_u16(s) ==
    LET digits == IF Len(s) > 0 /\ s[1] = "+" THEN Tail(s) ELSE s IN
    IF Len(digits) = 0 THEN None ELSE parse_digits(digits, 1, 0)

DigitChar(d) == <<"0", "1", "2", "3", "4", "5", "6", "7", "8", "9">>[d + 1]

\* <u16 as Display>::fmt
RECURSIVE to_decimal(_)
to_decimal(n) ==
    IF n < 10 THEN <<DigitChar(n)>>
    ELSE Append(to_decimal(n \div 10), DigitChar(n % 10))

\* All texts over alphabet A of length at most n
TextsUpTo(A, n) == UNION {[1..k -> A] : k \in 0..n}

----------------------------------------------------------------------------
(* description.rs: bare URLs to markdown links.  Text is a sequence of      *)
(* characters here, one string per character.                               *)

is_punct(b) == b \in {")", ",", ".", ";", ":", "!", "?"}

\* str::contains(char)
contains(s, c) == \E k \in 1..Len(s) : s[k] = c

RECURSIVE trailing_cut_every_punct(_, _)
trailing_cut_every_punct(url, cut) ==
    IF cut = 0 THEN 0
    ELSE IF ~is_punct(url[cut]) THEN cut
    ELSE trailing_cut_every_punct(url, cut - 1)

split_trailing_punctuation_every_punct(url) ==
    LET cut == trailing_cut_every_punct(url, Len(url)) IN
    <<SubSeq(url, 1, cut), SubSeq(url, cut + 1, Len(url))>>

\* The while loop of split_trailing_punctuation, entered with this cut
RECURSIVE trailing_cut(_, _)
trailing_cut(url, cut) ==
    IF cut = 0 THEN 0
    ELSE LET b == url[cut] IN
         IF ~is_punct(b) THEN cut
         ELSE IF b = ")" /\ contains(SubSeq(url, 1, cut), "(") THEN cut
         ELSE trailing_cut(url, cut - 1)

\* (url, trailing_punctuation)
split_trailing_punctuation(url) ==
    LET cut == trailing_cut(url, Len(url)) IN
    <<SubSeq(url, 1, cut), SubSeq(url, cut + 1, Len(url))>>

\* remaining.find(char::is_whitespace).unwrap_or(remaining.len())
end_rel(remaining) ==
    LET ws == {k \in 1..Len(remaining) : is_whitespace(remaining[k])} IN
    IF ws = {} THEN Len(remaining) ELSE (CHOOSE k \in ws : \A j \in ws : k <= j) - 1

\* The loop over char_indices: the iterator stands at character i, text
\* before `last` is already in `out`
RECURSIVE convert_loop(_, _, _, _)
convert_loop(text, i, last, out) ==
    IF i > Len(text) THEN out \o SubSeq(text, last, Len(text))
    ELSE IF text[i] # "h" THEN convert_loop(text, i + 1, last, out)
    ELSE LET remaining == SubSeq(text, i, Len(text)) IN
         IF ~starts_with(remaining, <<"h", "t", "t", "p", "s", ":", "/", "/">>) /\ ~starts_with(remaining, <<"h", "t", "t", "p", ":", "/", "/">>)
         THEN convert_loop(text, i + 1, last, out)
         ELSE LET raw_url == SubSeq(remaining, 1, end_rel(remaining))
                  split == split_trailing_punctuation(raw_url)
                  url == split[1]
                  trailing == split[2]
                  next == i + end_rel(remaining)
              IN  convert_loop(text, next, next,
                               out \o SubSeq(text, last, i - 1)
                                   \o <<"[">> \o url \o <<"]", "(">> \o url \o <<")">> \o trailing)

convert_urls_to_markdown(text) == convert_loop(text, 1, 1, <<>>)

\* Most pieces a description is put together from
MaxPieces == 4

\* Pieces of a description: the two schemes, a text that only begins like
\* one, letters, whitespace, punctuation and parentheses
Pieces == {<<"h", "t", "t", "p", ":", "/", "/">>, <<"h", "t", "t", "p", "s", ":", "/", "/">>, <<"h", "t", "t", "p", ":", "/">>, <<"h">>, <<"a">>, <<" ">>, <<".">>, <<")">>, <<"(">>}

RECURSIVE Concat(_)
Concat(ss) == IF Len(ss) = 0 THEN <<>> ELSE ss[1] \o Concat(Tail(ss))

Descriptions == {Concat(ps) : ps \in UNION {[1..k -> Pieces] : k \in 0..MaxPieces}}

NoDescription ==
    /\ description = <<>>
    /\ md_pc = "idle"
    /\ markdown_text = <<>>

----------------------------------------------------------------------------
(* PackageId *)

is_pkg_component_no_first_check(s) ==
    Len(s) > 0 /\ (Len(s) = 1 \/ is_all_w_c(SubSeq(s, 2, Len(s))))

is_pkg_component(s) ==
    /\ Len(s) > 0
    /\ is_ascii_alphabetic(s[1])
    /\ (Len(s) = 1 \/ is_all_w_c(SubSeq(s, 2, Len(s))))

PackageId_new_three(p) ==
    LET components == Split(p, ".") IN
    IF Len(components) >= 3 /\ \A i \in 1..Len(components) : is_pkg_component(components[i])
    THEN Some(p)
    ELSE None

PackageId_new_first_only(p) ==
    LET components == Split(p, ".") IN
    IF Len(components) >= 2 /\ is_pkg_component(components[1]) /\ is_pkg_component(components[2])
    THEN Some(components[1] \o <<".">> \o components[2])
    ELSE None

\* The first two components are taken one by one with next(); a missing or
\* invalid one returns None.  The rest are checked with all().
PackageId_new(p) ==
    LET components == Split(p, ".") IN
    IF ~(Len(components) >= 1 /\ is_pkg_component(components[1])) THEN None
    ELSE IF ~(Len(components) >= 2 /\ is_pkg_component(components[2])) THEN None
    ELSE IF \A i \in 3..Len(components) : is_pkg_component(components[i]) THEN Some(p)
    ELSE None

\* Longest candidate string
MaxIdLen == 5

PkgAlphabet == {"a", "Z", "0", "_", ".", "!", "xC3", "xA9"}

\* Well-formed UTF-8 over PkgAlphabet: the lead byte 0xC3 is always followed
\* by its continuation byte 0xA9, which appears nowhere else
IsUtf8(s) ==
    /\ \A i \in 1..Len(s) : s[i] = "xC3" => (i < Len(s) /\ s[i + 1] = "xA9")
    /\ \A i \in 1..Len(s) : s[i] = "xA9" => (i > 1 /\ s[i - 1] = "xC3")

PkgInputs == {s \in TextsUpTo(PkgAlphabet, MaxIdLen) : IsUtf8(s)}

\* No builder exists
NoBuilder ==
    /\ stage = "none"
    /\ backend = "Builtin"
    /\ device_serial = None
    /\ debug_assertions = FALSE
    /\ op = [name |-> "none"]
    /\ env = [kind |-> "none"]
    /\ log = <<>>
    /\ result = [tag |-> "none"]
    /\ calls = <<>>

PkgInit ==
    /\ p_id \in PkgInputs
    /\ pkg_pc = "call"
    /\ pkg_out = None
    /\ NoBuilder
    /\ NoDescription

PackageIdNew ==
    /\ pkg_pc = "call"
    /\ pkg_out' = PackageId_new(p_id)
    /\ pkg_pc' = "done"
    /\ UNCHANGED <<p_id, builder_vars, md_vars>>

PkgNext == PackageIdNew

SpecPkg == PkgInit /\ [][PkgNext]_vars

----------------------------------------------------------------------------
(* The package-name grammar, stated on positions of the string *)

NumComponents(s) == Cardinality({i \in 1..Len(s) : s[i] = "."}) + 1

\* Position i is the first byte of a component
StartsComponent(s, i) == s[i] # "." /\ (i = 1 \/ s[i - 1] = ".")

HasEmptyComponent(s) ==
    \/ Len(s) = 0
    \/ s[1] = "."
    \/ s[Len(s)] = "."
    \/ \E i \in 1..(Len(s) - 1) : s[i] = "." /\ s[i + 1] = "."

HasBadStart(s) == \E i \in 1..Len(s) : StartsComponent(s, i) /\ ~is_ascii_alphabetic(s[i])

HasNonWordTail(s) ==
    \E i \in 1..Len(s) :
        /\ s[i] # "."
        /\ ~StartsComponent(s, i)
        /\ ~(is_ascii_alphabetic(s[i]) \/ is_ascii_digit(s[i]) \/ s[i] = "_")

HasBadComponent(s) == HasEmptyComponent(s) \/ HasBadStart(s) \/ HasNonWordTail(s)

\* C1 (as stated): a string with fewer than 3 components, or with a bad
\* component, is rejected by PackageId::new.
C1_RejectsFewerThanThree ==
    pkg_pc = "done" =>
        ((NumComponents(p_id) < 3 \/ HasBadComponent(p_id)) => pkg_out = None)

\* C1 (amended): a string with fewer than 2 components, or with a component
\* that is empty, starts with a non-letter, or has a non-word byte after its
\* first byte, is rejected by PackageId::new.
C1_RejectsFewerThanTwo ==
    pkg_pc = "done" =>
        ((NumComponents(p_id) < 2 \/ HasBadComponent(p_id)) => pkg_out = None)

\* A well-formed one-component name has been rejected
C1_Witness ==
    /\ pkg_pc = "done"
    /\ p_id = <<"a">>
    /\ pkg_out = None

\* C2: a string of at least 3 well-formed components is accepted, and the
\* identifier holds exactly the original string.
C2_ThreeComponentsRoundTrip ==
    pkg_pc = "done" =>
        ((NumComponents(p_id) >= 3 /\ ~HasBadComponent(p_id)) => pkg_out = Some(p_id))

C2_Witness ==
    /\ pkg_pc = "done"
    /\ p_id = <<"a", ".", "Z", ".", "a">>
    /\ pkg_out = Some(p_id)

\* C3: a string of at least 2 well-formed components is accepted
\* (two-component names are valid).
C3_TwoComponentsAccepted ==
    pkg_pc = "done" =>
        ((NumComponents(p_id) >= 2 /\ ~HasBadComponent(p_id)) => pkg_out # None)

C3_Witness ==
    /\ pkg_pc = "done"
    /\ p_id = <<"Z", ".", "a">>
    /\ pkg_out # None

----------------------------------------------------------------------------
(* Result<T, String>, and a panic of the thread that made the call *)

Ok(v) == [tag |-> "Ok", val |-> v]

Err(m) == [tag |-> "Err", msg |-> m]

Panic == [tag |-> "Panic"]

\* What a function hands back in the model: its return value (or panic) and
\* the transport commands it issued
Outcome(r, l) == [result |-> r, log |-> l]

----------------------------------------------------------------------------
(* AdbBackend *)

AdbBackend_ALL == {"Builtin", "System"}

AdbBackend_default_system == "System"

AdbBackend_default == "Builtin"

AdbBackend_fmt(b) == IF b = "Builtin" THEN <<"B", "u", "i", "l", "t", "i", "n">> ELSE <<"S", "y", "s", "t", "e", "m", " ", "(", "a", "d", "b", ")">>

----------------------------------------------------------------------------
(* Transport commands: a request to the ADB server, a shell command sent to *)
(* a device through adb_client, or a run of the adb binary                  *)

ServerVersion == [cmd |-> "server_version"]

ServerDevices == [cmd |-> "server_devices"]

GetDevice == [cmd |-> "get_device"]

DeviceShell(device, parts) == [cmd |-> "device_shell", device |-> device, args |-> parts]

Process(args) == [cmd |-> "process", args |-> args]

\* Display of an adb_client error
LibError == <<"i", "o", " ", "e", "r", "r", "o", "r">>

----------------------------------------------------------------------------
(* Builtin backend *)

version_builtin(srv) ==
    Outcome(IF srv.up
            THEN Ok(<<"A", "D", "B", " ", "S", "e", "r", "v", "e", "r", " ", "V", "e", "r", "s", "i", "o", "n", ":", " ">> \o srv.version)
            ELSE Err(<<"C", "a", "n", "n", "o", "t", " ", "g", "e", "t", " ", "A", "D", "B", " ", "s", "e", "r", "v", "e", "r", " ", "v", "e", "r", "s", "i", "o", "n", ":", " ">> \o LibError),
            <<ServerVersion>>)

devices_builtin(srv) ==
    Outcome(IF srv.up
            THEN Ok([i \in 1..Len(srv.devices) |->
                        <<srv.devices[i].identifier, srv.devices[i].state>>])
            ELSE Err(<<"C", "a", "n", "n", "o", "t", " ", "c", "o", "n", "n", "e", "c", "t", " ", "t", "o", " ", "A", "D", "B", " ", "s", "e", "r", "v", "e", "r", ":", " ">> \o LibError),
            <<ServerDevices>>)

\* adb_client's ADBServer::get_device: the one attached device; an error
\* when the server is down or when zero or several devices are attached
get_device(srv) ==
    IF srv.up /\ Len(srv.devices) = 1 THEN Ok(srv.devices[1].identifier) ELSE Err(LibError)

Identifiers(devices) == {devices[i].identifier : i \in 1..Len(devices)}

\* Lines 225-247: validate the requested serial against the server's device
\* list, then connect.  Ok(device) or the error returned early.
builtin_connect_no_validation(serial, srv) ==
    LET device == get_device(srv) IN
    IF device.tag = "Err"
    THEN Outcome(Err(<<"C", "a", "n", "n", "o", "t", " ", "c", "o", "n", "n", "e", "c", "t", " ", "t", "o", " ", "d", "e", "v", "i", "c", "e", ":", " ">> \o LibError), <<GetDevice>>)
    ELSE Outcome(device, <<GetDevice>>)

builtin_connect(serial, srv) ==
    IF serial # None /\ ~srv.up
    THEN Outcome(Err(<<"C", "a", "n", "n", "o", "t", " ", "g", "e", "t", " ", "d", "e", "v", "i", "c", "e", " ", "l", "i", "s", "t", ":", " ">> \o LibError), <<ServerDevices>>)
    ELSE IF serial # None /\ serial[1] \notin Identifiers(srv.devices)
    THEN Outcome(Err(<<"D", "e", "v", "i", "c", "e", " ", "'">> \o serial[1] \o <<"'", " ", "n", "o", "t", " ", "f", "o", "u", "n", "d", ".", " ", "A", "v", "a", "i", "l", "a", "b", "l", "e", ":", " ">>
                     \o join([i \in 1..Len(srv.devices) |-> srv.devices[i].identifier], <<",", " ">>)),
                 <<ServerDevices>>)
    ELSE LET validated == IF serial # None THEN <<ServerDevices>> ELSE <<>>
             device == get_device(srv)
         IN  IF device.tag = "Err"
             THEN Outcome(Err(<<"C", "a", "n", "n", "o", "t", " ", "c", "o", "n", "n", "e", "c", "t", " ", "t", "o", " ", "d", "e", "v", "i", "c", "e", ":", " ">> \o LibError),
                          validated \o <<GetDevice>>)
             ELSE Outcome(device, validated \o <<GetDevice>>)

\* Lines 249-264: split the command on whitespace, refuse an empty one, send
\* the words to the device and return its output, lossily decoded and trimmed
builtin_shell(device, shell_command, reply) ==
    LET command_parts == split_whitespace(shell_command) IN
    IF Len(command_parts) = 0
    THEN Outcome(Err(<<"E", "m", "p", "t", "y", " ", "s", "h", "e", "l", "l", " ", "c", "o", "m", "m", "a", "n", "d">>), <<>>)
    ELSE Outcome(IF reply.ok
                 THEN Ok(trim_end(from_utf8_lossy(reply.out)))
                 ELSE Err(<<"S", "h", "e", "l", "l", " ", "c", "o", "m", "m", "a", "n", "d", " ", "f", "a", "i", "l", "e", "d", ":", " ">> \o LibError),
                 <<DeviceShell(device, command_parts)>>)

run_shell_command_builtin(serial, shell_command, srv, reply) ==
    LET connected == builtin_connect(serial, srv) IN
    IF connected.result.tag = "Err" THEN connected
    ELSE LET ran == builtin_shell(connected.result.val, shell_command, reply) IN
         Outcome(ran.result, connected.log \o ran.log)

----------------------------------------------------------------------------
(* System backend *)

run_system_command_stderr_first(args, proc) ==
    Outcome(IF ~proc.spawned THEN Err(<<"C", "a", "n", "n", "o", "t", " ", "r", "u", "n", " ", "A", "D", "B", ",", " ", "l", "i", "k", "e", "l", "y", " ", "n", "o", "t", " ", "f", "o", "u", "n", "d">>)
            ELSE IF proc.success THEN Ok(to_trimmed_utf8(proc.stdout))
            ELSE Err(IF to_trimmed_utf8(proc.stderr) = <<>>
                     THEN to_trimmed_utf8(proc.stdout)
                     ELSE to_trimmed_utf8(proc.stderr)),
            <<Process(args)>>)

run_system_command(args, proc) ==
    Outcome(IF ~proc.spawned THEN Err(<<"C", "a", "n", "n", "o", "t", " ", "r", "u", "n", " ", "A", "D", "B", ",", " ", "l", "i", "k", "e", "l", "y", " ", "n", "o", "t", " ", "f", "o", "u", "n", "d">>)
            ELSE LET stdout == to_trimmed_utf8(proc.stdout) IN
                 IF proc.success THEN Ok(stdout)
                 ELSE Err(IF stdout = <<>> THEN to_trimmed_utf8(proc.stderr) ELSE stdout),
            <<Process(args)>>)

is_digits(c) == Len(c) > 0 /\ \A i \in 1..Len(c) : is_ascii_digit(c[i])

is_version_triple(s) ==
    LET parts == Split(s, ".") IN
    Len(parts) = 3 /\ is_digits(parts[1]) /\ is_digits(parts[2]) /\ is_digits(parts[3])

ADBV == <<"A", "n", "d", "r", "o", "i", "d", " ", "D", "e", "b", "u", "g", " ", "B", "r", "i", "d", "g", "e", " ", "v", "e", "r", "s", "i", "o", "n", " ">>

V == <<"V", "e", "r", "s", "i", "o", "n", " ">>

\* The debug assertions of version_system all hold for this output
version_asserts(out) ==
    LET lns == lines(out) IN
    /\ Len(lns) >= 1
    /\ starts_with(lns[1], ADBV)
    /\ is_version_triple(SubSeq(lns[1], Len(ADBV) + 1, Len(lns[1])))
    /\ Len(lns) >= 2
    /\ starts_with(lns[2], V)
    /\ LET dash == Find(lns[2], "-")
           end == IF dash = 0 THEN Len(lns[2]) ELSE dash - 1
       IN  is_version_triple(SubSeq(lns[2], Len(V) + 1, end))
    /\ Len(lns) >= 3
    /\ starts_with(lns[3], <<"I", "n", "s", "t", "a", "l", "l", "e", "d", " ", "a", "s", " ">>)
    /\ (ends_with(lns[3], <<"a", "d", "b">>) \/ ends_with(lns[3], <<"a", "d", "b", ".", "e", "x", "e">>))
    /\ Len(lns) >= 4
    /\ starts_with(lns[4], <<"R", "u", "n", "n", "i", "n", "g", " ", "o", "n", " ">>)
    /\ Len(lns) < 5

version_system(debug, proc) ==
    LET ran == run_system_command(<<<<"v", "e", "r", "s", "i", "o", "n">>>>, proc) IN
    IF ran.result.tag = "Err" THEN ran
    ELSE IF debug /\ ~version_asserts(ran.result.val) THEN Outcome(Panic, ran.log)
    ELSE ran

\* filter_map of devices_system: a line with a tab gives (serial, status)
RECURSIVE devices_filter_map(_)
devices_filter_map(lns) ==
    IF Len(lns) = 0 THEN <<>>
    ELSE LET pair == split_once(lns[1], "\t") IN
         (IF pair = None THEN <<>> ELSE <<pair[1]>>) \o devices_filter_map(Tail(lns))

\* Iterator::skip(1)
skip1(s) == IF Len(s) = 0 THEN <<>> ELSE Tail(s)

devices_system_no_skip(proc) ==
    LET ran == run_system_command(<<<<"d", "e", "v", "i", "c", "e", "s">>>>, proc) IN
    IF ran.result.tag = "Err" THEN ran
    ELSE Outcome(Ok(devices_filter_map(lines(ran.result.val))), ran.log)

devices_system(proc) ==
    LET ran == run_system_command(<<<<"d", "e", "v", "i", "c", "e", "s">>>>, proc) IN
    IF ran.result.tag = "Err" THEN ran
    ELSE Outcome(Ok(devices_filter_map(skip1(lines(ran.result.val)))), ran.log)

run_shell_command_system(serial, shell_command, proc) ==
    run_system_command((IF serial # None THEN <<<<"-", "s">>, serial[1]>> ELSE <<>>)
                           \o <<<<"s", "h", "e", "l", "l">>, shell_command>>,
                       proc)

----------------------------------------------------------------------------
(* Dispatch on the backend of the builder *)

ACommand_devices(b, e) ==
    IF b = "Builtin" THEN devices_builtin(e) ELSE devices_system(e)

ACommand_version(b, debug, e) ==
    IF b = "Builtin" THEN version_builtin(e) ELSE version_system(debug, e)

run_shell_command(b, serial, shell_command, e) ==
    IF b = "Builtin"
    THEN run_shell_command_builtin(serial, shell_command, e, e.shell)
    ELSE run_shell_command_system(serial, shell_command, e)

----------------------------------------------------------------------------
(* ShellCommand *)

ShellCommand_getprop(b, serial, key, e) ==
    run_shell_command(b, serial, <<"g", "e", "t", "p", "r", "o", "p", " ">> \o key, e)

ShellCommand_reboot(b, serial, e) == run_shell_command(b, serial, <<"r", "e", "b", "o", "o", "t">>, e)

ShellCommand_raw(b, serial, action, e) == run_shell_command(b, serial, action, e)

----------------------------------------------------------------------------
(* PmCommand *)

PmListPacksFlag_ALL == {"IncludeUninstalled", "OnlyEnabled", "OnlyDisabled"}

PmListPacksFlag_as_str(f) ==
    CASE f = "IncludeUninstalled" -> <<"-", "u">>
      [] f = "OnlyEnabled" -> <<"-", "e">>
      [] f = "OnlyDisabled" -> <<"-", "d">>

PACK_PREFIX == <<"p", "a", "c", "k", "a", "g", "e", ":">>

list_packages_command_user_first(flag, user_id) ==
    <<"p", "m", " ", "l", "i", "s", "t", " ", "p", "a", "c", "k", "a", "g", "e", "s", " ", "-", "s">>
        \o (IF user_id # None THEN <<" ", "-", "-", "u", "s", "e", "r", " ">> \o to_decimal(user_id[1]) ELSE <<>>)
        \o (IF flag # None THEN <<" ">> \o PmListPacksFlag_as_str(flag[1]) ELSE <<>>)

\* The command text list_packages_sys builds
list_packages_command(flag, user_id) ==
    <<"p", "m", " ", "l", "i", "s", "t", " ", "p", "a", "c", "k", "a", "g", "e", "s", " ", "-", "s">>
        \o (IF flag # None THEN <<" ">> \o PmListPacksFlag_as_str(flag[1]) ELSE <<>>)
        \o (IF user_id # None THEN <<" ", "-", "-", "u", "s", "e", "r", " ">> \o to_decimal(user_id[1]) ELSE <<>>)

RECURSIVE packages_filter_map_valid_only(_)
packages_filter_map_valid_only(lns) ==
    IF Len(lns) = 0 THEN <<>>
    ELSE LET pkg == strip_prefix(lns[1], PACK_PREFIX) IN
         (IF pkg = None \/ PackageId_new(pkg[1]) = None THEN <<>> ELSE pkg)
             \o packages_filter_map_valid_only(Tail(lns))

\* filter_map of list_packages_sys: a line with the prefix gives its remainder
RECURSIVE packages_filter_map(_)
packages_filter_map(lns) ==
    IF Len(lns) = 0 THEN <<>>
    ELSE LET pkg == strip_prefix(lns[1], PACK_PREFIX) IN
         (IF pkg = None THEN <<>> ELSE pkg) \o packages_filter_map(Tail(lns))

\* The debug_assert of list_packages_sys holds for every package line
packages_debug_assert(lns) ==
    \A i \in 1..Len(lns) :
        LET pkg == strip_prefix(lns[i], PACK_PREFIX) IN
        pkg # None => (PackageId_new(pkg[1]) # None \/ pkg[1] = <<"a", "n", "d", "r", "o", "i", "d">>)

PmCommand_list_packages_sys(b, serial, debug, flag, user_id, e) ==
    LET ran == ShellCommand_raw(b, serial, list_packages_command(flag, user_id), e) IN
    IF ran.result.tag = "Err" THEN ran
    ELSE IF debug /\ ~packages_debug_assert(lines(ran.result.val)) THEN Outcome(Panic, ran.log)
    ELSE Outcome(Ok(packages_filter_map(lines(ran.result.val))), ran.log)

\* One line of `pm list users`: Some(id), or None when the line is dropped
user_line_no_running(line) ==
    LET s1 == trim_ascii(line)
        s2 == unwrap_or(strip_prefix(s1, <<"U", "s", "e", "r", "I", "n", "f", "o", "{">>), s1)
        s4 == unwrap_or(strip_suffix(s2, <<"}">>), s2)
    IN  parse_u16(Split(s4, ":")[1])

user_line(line) ==
    LET s1 == trim_ascii(line)
        s2 == unwrap_or(strip_prefix(s1, <<"U", "s", "e", "r", "I", "n", "f", "o", "{">>), s1)
        s3 == trim_ascii_end(unwrap_or(strip_suffix(s2, <<"r", "u", "n", "n", "i", "n", "g">>), s2))
        s4 == unwrap_or(strip_suffix(s3, <<"}">>), s3)
    IN  parse_u16(Split(s4, ":")[1])

\* filter_map of list_users
RECURSIVE users_filter_map(_)
users_filter_map(lns) ==
    IF Len(lns) = 0 THEN <<>>
    ELSE user_line(lns[1]) \o users_filter_map(Tail(lns))

PmCommand_list_users(b, serial, e) ==
    LET ran == ShellCommand_raw(b, serial, <<"p", "m", " ", "l", "i", "s", "t", " ", "u", "s", "e", "r", "s">>, e) IN
    IF ran.result.tag = "Err" THEN ran
    ELSE Outcome(Ok(users_filter_map(skip1(lines(ran.result.val)))), ran.log)

----------------------------------------------------------------------------
(* The environment: the ADB server and its devices, the adb process *)

\* Most devices attached at once
MaxDevices == 2

\* Longest action string handed to raw()
MaxActionLen == 3

\* Longest stdout and stderr of the adb process in the error-message cases
MaxOutLen == 2

\* Longest device line after the header of `adb devices`
MaxLineLen == 3

\* Most lines that follow the first record line of a listing
MaxExtraLines == 1

\* Most lines of a package listing
MaxPackLines == 2

DevicePool ==
    {[identifier |-> <<"S", "1">>, state |-> <<"d", "e", "v", "i", "c", "e">>],
     [identifier |-> <<"S", "2">>, state |-> <<"u", "n", "a", "u", "t", "h", "o", "r", "i", "z", "e", "d">>],
     [identifier |-> <<"S", "3">>, state |-> <<"d", "e", "v", "i", "c", "e">>]}

\* The device lists the server can report: no identifier twice
DeviceLists ==
    {d \in UNION {[1..k -> DevicePool] : k \in 0..MaxDevices} :
        \A i, j \in 1..Len(d) : i # j => d[i] # d[j]}

\* Serials a caller asks for: none (empty), one that may be attached, one
\* that never is
RequestedSerials == {<<>>, <<"S", "1">>, <<"S", "4">>}

NoReply == [ok |-> FALSE, out |-> <<>>]

\* The device's answers to a shell command: a failure, or one of `outs`
Replies(outs) == {NoReply} \cup {[ok |-> TRUE, out |-> o] : o \in outs}

ServerDown ==
    [kind |-> "server", up |-> FALSE, version |-> <<>>, devices |-> <<>>,
     shell |-> NoReply, src |-> <<>>]

ServerUp(d, reply, src) ==
    [kind |-> "server", up |-> TRUE, version |-> <<"1", ".", "0", ".", "4", "1">>, devices |-> d,
     shell |-> reply, src |-> src]

\* The server as seen by version() and devices()
ServerEnvs == {ServerDown} \cup {ServerUp(d, NoReply, <<>>) : d \in DeviceLists}

dl2srv(d) == ServerUp(d, NoReply, <<>>)

\* The server and the device as seen by a shell command of a builder with
\* this serial; docs are the outputs the device can print, each with the
\* records it was printed from.  The device answers only when it is reached.
BuiltinShellEnvs(serial, docs) ==
    {ServerDown}
        \cup {ServerUp(d, NoReply, <<>>) : d \in DeviceLists}
        \cup UNION {{ServerUp(d, [ok |-> TRUE, out |-> doc.text], doc.src) : doc \in docs} :
                        d \in {dl \in DeviceLists : builtin_connect(serial, dl2srv(dl)).result.tag = "Ok"}}

SpawnFailed ==
    [kind |-> "process", spawned |-> FALSE, success |-> FALSE,
     stdout |-> <<>>, stderr |-> <<>>, src |-> <<>>]

Exited(success, stdout, stderr, src) ==
    [kind |-> "process", spawned |-> TRUE, success |-> success,
     stdout |-> stdout, stderr |-> stderr, src |-> src]

\* Runs of the adb binary: it cannot be started, it exits zero having
\* printed one of docs, or it exits non-zero with one of fails
ProcEnvs(docs, okErrs, failOuts, failErrs) ==
    {SpawnFailed}
        \cup {Exited(TRUE, doc.text, e, doc.src) : doc \in docs, e \in okErrs}
        \cup {Exited(FALSE, o, e, <<>>) : o \in failOuts, e \in failErrs}

Doc(text) == [text |-> text, src |-> <<>>]

SmallDocs == {Doc(<<>>), Doc(<<"o", "k", "\n">>)}

SmallOuts == {<<>>, <<"n", "o", "\n">>}

SmallErrs == {<<>>, <<"e", "r", "r", "\n">>}

ShellEnvs(b, serial, docs) ==
    IF b = "Builtin" THEN BuiltinShellEnvs(serial, docs)
    ELSE ProcEnvs(docs, {<<>>}, SmallOuts, SmallErrs)

\* A listing as printed: every line ended by a newline
PrintLines(lns) == IF Len(lns) = 0 THEN <<>> ELSE join(lns, <<"\n">>) \o <<"\n">>

----------------------------------------------------------------------------
(* What `adb version` prints *)

VersionLine1 == {ADBV \o <<"1", ".", "0", ".", "4", "1">>, ADBV \o <<"1", ".", "0">>}

VersionLine2 == {V \o <<"3", "5", ".", "0", ".", "2", "-", "a", "n", "d", "r", "o", "i", "d", "-", "t", "o", "o", "l", "s">>, V \o <<"3", "5", ".", "0", ".", "2">>, V \o <<"x">>}

VersionLine3 ==
    {<<"I", "n", "s", "t", "a", "l", "l", "e", "d", " ", "a", "s", " ", "/", "b", "i", "n", "/", "a", "d", "b">>, <<"I", "n", "s", "t", "a", "l", "l", "e", "d", " ", "a", "s", " ", "C", ":", "/", "a", "d", "b", ".", "e", "x", "e">>, <<"I", "n", "s", "t", "a", "l", "l", "e", "d", " ", "a", "s", " ", "/", "b", "i", "n", "/", "a", "d">>}

VersionLine4 == {<<"R", "u", "n", "n", "i", "n", "g", " ", "o", "n", " ", "L", "i", "n", "u", "x">>, <<"R", "u", "n">>}

VersionBanners ==
    {<<>>}
        \cup {<<l1>> : l1 \in VersionLine1}
        \cup {<<l1, l2>> : l1 \in VersionLine1, l2 \in VersionLine2}
        \cup {<<l1, l2, l3, l4>> \o more :
                l1 \in VersionLine1, l2 \in VersionLine2, l3 \in VersionLine3,
                l4 \in VersionLine4, more \in {<<>>, <<<<"m", "o", "r", "e">>>>}}

VersionDocs == {Doc(PrintLines(b)) : b \in VersionBanners} \cup {Doc(<<"xFF">>)}

----------------------------------------------------------------------------
(* What `adb devices` prints: a first line, a line over LineAlphabet, then  *)
(* up to MaxExtraLines plain lines.  src keeps the lines the text was       *)
(* printed from.  The last line does not end in whitespace, since           *)
(* run_system_command trims the end of the whole output.                    *)

LineAlphabet == {"A", "d", " ", "\t"}

DevicesHeaders == {<<"L", "i", "s", "t", " ", "o", "f", " ", "d", "e", "v", "i", "c", "e", "s", " ", "a", "t", "t", "a", "c", "h", "e", "d">>, <<"S", "9", "\t", "d", "e", "v", "i", "c", "e">>}

DevicesPlainLines == {<<"S", "1", "\t", "d", "e", "v", "i", "c", "e">>, <<"o", "f", "f", "l", "i", "n", "e">>}

DevicesListings ==
    {<<h, ln>> \o more :
        h \in DevicesHeaders,
        ln \in TextsUpTo(LineAlphabet, MaxLineLen),
        more \in UNION {[1..k -> DevicesPlainLines] : k \in 0..MaxExtraLines}}

EndsInWhitespace(s) == Len(s) > 0 /\ is_whitespace(s[Len(s)])

DevicesDocs ==
    {Doc(<<>>)}
        \cup {[text |-> PrintLines(<<h>>), src |-> <<h>>] : h \in DevicesHeaders}
        \cup {[text |-> PrintLines(l), src |-> l] :
                l \in {x \in DevicesListings : ~EndsInWhitespace(x[Len(x)])}}

----------------------------------------------------------------------------
(* What `pm list users` prints: a first line, then one line per user.  A    *)
(* user is printed as  [ws] [UserInfo{] id [:name:flags] [}] [running] [ws] *)

\* Texts in the id position, each with the u16 it denotes (None: no u16)
UserIdTexts ==
    {[text |-> <<"0">>, val |-> Some(0)],
     [text |-> <<"1", "0">>, val |-> Some(10)],
     [text |-> <<"+", "5">>, val |-> Some(5)],
     [text |-> <<"6", "5", "5", "3", "5">>, val |-> Some(65535)],
     [text |-> <<"6", "5", "5", "3", "6">>, val |-> None],
     [text |-> <<"-", "1">>, val |-> None],
     [text |-> <<"1", "a">>, val |-> None],
     [text |-> <<>>, val |-> None]}

UserLines ==
    [ws : BOOLEAN, prefix : BOOLEAN, id : UserIdTexts, rest : BOOLEAN, brace : BOOLEAN,
     running : {"no", "spaced", "glued"}]

PrintUser(u) ==
    (IF u.ws THEN <<" ", "\t">> ELSE <<>>)
        \o (IF u.prefix THEN <<"U", "s", "e", "r", "I", "n", "f", "o", "{">> ELSE <<>>)
        \o u.id.text
        \o (IF u.rest THEN <<":", "O", "w", "n", "e", "r", ":", "1", "3">> ELSE <<>>)
        \o (IF u.brace THEN <<"}">> ELSE <<>>)
        \o (CASE u.running = "no" -> <<>>
              [] u.running = "spaced" -> <<" ", "r", "u", "n", "n", "i", "n", "g">>
              [] u.running = "glued" -> <<"r", "u", "n", "n", "i", "n", "g">>)
        \o (IF u.ws THEN <<" ", "\r">> ELSE <<>>)

UsersPlainLines ==
    {[ws |-> FALSE, prefix |-> TRUE, id |-> [text |-> <<"1", "0">>, val |-> Some(10)],
      rest |-> TRUE, brace |-> TRUE, running |-> "no"],
     [ws |-> FALSE, prefix |-> TRUE, id |-> [text |-> <<"1", "a">>, val |-> None],
      rest |-> TRUE, brace |-> TRUE, running |-> "spaced"]}

UsersHeaders == {<<"U", "s", "e", "r", "s", ":">>, <<"U", "s", "e", "r", "I", "n", "f", "o", "{", "7", ":", "x", ":", "1", "}">>}

UsersListings ==
    {<<u>> \o more :
        u \in UserLines,
        more \in UNION {[1..k -> UsersPlainLines] : k \in 0..MaxExtraLines}}

PrintUsers(h, us) == PrintLines(<<h>> \o [i \in 1..Len(us) |-> PrintUser(us[i])])

UsersDocs ==
    {Doc(<<>>)}
        \cup {[text |-> PrintUsers(h, <<>>), src |-> <<>>] : h \in UsersHeaders}
        \cup {[text |-> PrintUsers(h, us), src |-> us] : h \in UsersHeaders, us \in UsersListings}

----------------------------------------------------------------------------
(* What `pm list packages` prints *)

PackLines ==
    {<<"p", "a", "c", "k", "a", "g", "e", ":", "a", ".", "b">>, <<"p", "a", "c", "k", "a", "g", "e", ":", "a", "n", "d", "r", "o", "i", "d">>, <<"p", "a", "c", "k", "a", "g", "e", ":", "1", "x">>, <<"p", "a", "c", "k", "a", "g", "e", ":">>, <<" ", "p", "a", "c", "k", "a", "g", "e", ":", "a", ".", "b">>, <<"j", "u", "n", "k">>}

PackagesDocs ==
    {[text |-> PrintLines(l), src |-> l] :
        l \in UNION {[1..k -> PackLines] : k \in 0..MaxPackLines}}

UserIds == {0, 10, 65535}

----------------------------------------------------------------------------
(* Outputs of the adb process and of the device in the error-message cases *)

OutAlphabet == {"o", " ", "\n", "xFF"}

ErrAlphabet == {"e", "\n"}

RichOuts == TextsUpTo(OutAlphabet, MaxOutLen)

RichErrs == TextsUpTo(ErrAlphabet, MaxOutLen)

RichDocs == {Doc(o) : o \in RichOuts}

Keys == {<<>>, <<"k">>}

Actions == TextsUpTo({"a", " ", "\t"}, MaxActionLen)

----------------------------------------------------------------------------
(* The builder as a state machine *)

Init ==
    /\ p_id = <<>>
    /\ pkg_pc = "idle"
    /\ pkg_out = None
    /\ stage = "none"
    /\ backend = AdbBackend_default
    /\ device_serial = None
    /\ debug_assertions \in BOOLEAN
    /\ op = [name |-> "none"]
    /\ env = [kind |-> "none"]
    /\ log = <<>>
    /\ result = [tag |-> "none"]
    /\ calls = <<>>
    /\ NoDescription

\* ACommand::with_backend
WithBackend(b) ==
    /\ stage \in {"none", "done"}
    /\ stage' = "root"
    /\ backend' = b
    /\ device_serial' = None
    /\ op' = [name |-> "none"]
    /\ env' = [kind |-> "none"]
    /\ log' = <<>>
    /\ result' = [tag |-> "none"]
    /\ calls' = <<[name |-> "with_backend", backend |-> b]>>
    /\ UNCHANGED <<debug_assertions, pkg_vars, md_vars>>

\* ACommand::new: with_backend(AdbBackend::default())
New ==
    /\ stage \in {"none", "done"}
    /\ stage' = "root"
    /\ backend' = AdbBackend_default
    /\ device_serial' = None
    /\ op' = [name |-> "none"]
    /\ env' = [kind |-> "none"]
    /\ log' = <<>>
    /\ result' = [tag |-> "none"]
    /\ calls' = <<[name |-> "new"]>>
    /\ UNCHANGED <<debug_assertions, pkg_vars, md_vars>>

Shell_default_backend(serial) ==
    /\ stage = "root"
    /\ device_serial' = IF serial # <<>> THEN Some(serial) ELSE device_serial
    /\ backend' = AdbBackend_default
    /\ stage' = "shell"
    /\ calls' = Append(calls, [name |-> "shell", device_serial |-> serial])
    /\ UNCHANGED <<debug_assertions, op, env, log, result, pkg_vars, md_vars>>

\* ACommand::shell
Shell(serial) ==
    /\ stage = "root"
    /\ device_serial' = IF serial # <<>> THEN Some(serial) ELSE device_serial
    /\ stage' = "shell"
    /\ calls' = Append(calls, [name |-> "shell", device_serial |-> serial])
    /\ UNCHANGED <<backend, debug_assertions, op, env, log, result, pkg_vars, md_vars>>

\* ShellCommand::pm
Pm ==
    /\ stage = "shell"
    /\ stage' = "pm"
    /\ calls' = Append(calls, [name |-> "pm"])
    /\ UNCHANGED <<backend, device_serial, debug_assertions, op, env, log, result, pkg_vars, md_vars>>

Finish_by_reference(o, e, outcome) ==
    /\ stage' = stage
    /\ op' = o
    /\ env' = e
    /\ log' = outcome.log
    /\ result' = outcome.result
    /\ calls' = Append(calls, [name |-> o.name])
    /\ UNCHANGED <<backend, device_serial, debug_assertions, pkg_vars, md_vars>>

\* A terminal operation consumes the builder and returns
Finish(o, e, outcome) ==
    /\ stage' = "done"
    /\ op' = o
    /\ env' = e
    /\ log' = outcome.log
    /\ result' = outcome.result
    /\ calls' = Append(calls, [name |-> o.name])
    /\ UNCHANGED <<backend, device_serial, debug_assertions, pkg_vars, md_vars>>

\* ACommand::devices
Devices ==
    /\ stage = "root"
    /\ \E e \in IF backend = "Builtin" THEN ServerEnvs
                ELSE ProcEnvs(DevicesDocs, {<<>>}, SmallOuts, SmallErrs) :
            Finish([name |-> "devices"], e, ACommand_devices(backend, e))

\* ACommand::version
Version ==
    /\ stage = "root"
    /\ \E e \in IF backend = "Builtin" THEN ServerEnvs
                ELSE ProcEnvs(VersionDocs, {<<>>}, SmallOuts, SmallErrs) :
            Finish([name |-> "version"], e, ACommand_version(backend, debug_assertions, e))

\* ShellCommand::getprop
Getprop(key) ==
    /\ stage = "shell"
    /\ \E e \in ShellEnvs(backend, device_serial, SmallDocs) :
            Finish([name |-> "getprop", key |-> key], e,
                   ShellCommand_getprop(backend, device_serial, key, e))

\* ShellCommand::reboot
Reboot ==
    /\ stage = "shell"
    /\ \E e \in IF backend = "Builtin" THEN BuiltinShellEnvs(device_serial, RichDocs)
                ELSE ProcEnvs(RichDocs, RichErrs, RichOuts, RichErrs) :
            Finish([name |-> "reboot"], e, ShellCommand_reboot(backend, device_serial, e))

\* ShellCommand::raw
Raw(action) ==
    /\ stage = "shell"
    /\ \E e \in ShellEnvs(backend, device_serial, SmallDocs) :
            Finish([name |-> "raw", action |-> action], e,
                   ShellCommand_raw(backend, device_serial, action, e))

\* PmCommand::list_packages_sys
ListPackagesSys(flag, user_id) ==
    /\ stage = "pm"
    /\ \E e \in ShellEnvs(backend, device_serial, PackagesDocs) :
            Finish([name |-> "list_packages_sys", flag |-> flag, user_id |-> user_id], e,
                   PmCommand_list_packages_sys(backend, device_serial, debug_assertions,
                                               flag, user_id, e))

\* PmCommand::list_users
ListUsers ==
    /\ stage = "pm"
    /\ \E e \in ShellEnvs(backend, device_serial, UsersDocs) :
            Finish([name |-> "list_users"], e,
                   PmCommand_list_users(backend, device_serial, e))

Next ==
    \/ New
    \/ \E b \in AdbBackend_ALL : WithBackend(b)
    \/ \E serial \in RequestedSerials : Shell(serial)
    \/ Pm
    \/ Devices
    \/ Version
    \/ \E key \in Keys : Getprop(key)
    \/ Reboot
    \/ \E action \in Actions : Raw(action)
    \/ \E flag \in {None} \cup {Some(f) : f \in PmListPacksFlag_ALL},
          user_id \in {None} \cup {Some(u) : u \in UserIds} :
            ListPackagesSys(flag, user_id)
    \/ ListUsers

Spec == Init /\ [][Next]_vars

----------------------------------------------------------------------------
(* DescriptionContent::parse up to the markdown text *)

MdInit ==
    /\ description \in Descriptions
    /\ md_pc = "call"
    /\ markdown_text = <<>>
    /\ p_id = <<>>
    /\ pkg_pc = "idle"
    /\ pkg_out = None
    /\ NoBuilder

\* let markdown_text = convert_urls_to_markdown(description)
ConvertUrlsToMarkdown ==
    /\ md_pc = "call"
    /\ markdown_text' = convert_urls_to_markdown(description)
    /\ md_pc' = "done"
    /\ UNCHANGED <<description, pkg_vars, builder_vars>>

MdNext == ConvertUrlsToMarkdown

SpecMd == MdInit /\ [][MdNext]_vars

----------------------------------------------------------------------------
(* Properties of the builder *)

\* sub occurs in t
Contains(t, sub) ==
    \E i \in 0..(Len(t) - Len(sub)) : SubSeq(t, i + 1, i + Len(sub)) = sub

\* Operations that run a command in the device's shell
ShellOps == {"getprop", "reboot", "raw", "list_packages_sys", "list_users"}

Done == stage = "done"

\* The environment produced an output for the operation to return or parse
Answered ==
    \/ env.kind = "process" /\ env.spawned /\ env.success
    \/ env.kind = "server" /\ env.shell.ok

\* C4: on every raw output of the device or the adb binary, an operation
\* returns an Ok or an Err value; no assertion fails and nothing panics.
C4_NeverPanics == Done => result.tag \in {"Ok", "Err"}

\* Round trips to the ADB server or a device, and runs of the adb binary.
\* Opening the device and running the shell command on it count as one.
RoundTrips(l) ==
    Cardinality({i \in 1..Len(l) : l[i].cmd \in {"server_version", "server_devices", "process"}})
        + (IF \E i \in 1..Len(l) : l[i].cmd \in {"get_device", "device_shell"} THEN 1 ELSE 0)

\* C5: every operation of the builder performs exactly one underlying
\* transport command per call, on either backend, with or without a serial.
C5_OneCommandPerOperation == Done => RoundTrips(log) = 1

\* C6: on the Builtin backend a shell operation with a requested serial
\* first asks the server for the attached devices; if the serial is not
\* among them, it returns an error naming the serial and every attached
\* serial, and sends no shell command to any device.
C6_UnknownSerialIsRefused ==
    (Done /\ backend = "Builtin" /\ op.name \in ShellOps /\ device_serial # None) =>
        /\ Len(log) >= 1
        /\ log[1] = ServerDevices
        /\ (env.up /\ device_serial[1] \notin Identifiers(env.devices)) =>
            /\ result.tag = "Err"
            /\ Contains(result.msg, device_serial[1])
            /\ \A id \in Identifiers(env.devices) : Contains(result.msg, id)
            /\ \A i \in 1..Len(log) : log[i].cmd # "device_shell"

C6_Witness ==
    /\ Done
    /\ backend = "Builtin"
    /\ op.name = "getprop"
    /\ device_serial = Some(<<"S", "4">>)
    /\ env.up
    /\ Len(env.devices) = 2
    /\ result.tag = "Err"
    /\ log = <<ServerDevices>>

\* r is text without its trailing whitespace
IsTrimmedOf(r, text) ==
    /\ Len(r) <= Len(text)
    /\ r = SubSeq(text, 1, Len(r))
    /\ \A i \in (Len(r) + 1)..Len(text) : is_whitespace(text[i])
    /\ (Len(r) > 0 => ~is_whitespace(r[Len(r)]))

\* The adb binary was started and exited
ProcessExited == Done /\ env.kind = "process" /\ env.spawned

\* Operations that return the output of run_system_command as it is
PlainOps == {"getprop", "reboot", "raw"}

\* C7 (as stated): on a non-zero exit the error is the trimmed stdout when
\* stdout is non-empty, whatever stderr holds, and the trimmed stderr when
\* stdout is empty; on a zero exit the result is Ok with the trimmed stdout.
C7_ErrorIsStdoutUnlessEmpty ==
    ProcessExited =>
        /\ (~env.success /\ env.stdout # <<>>) =>
            (result.tag = "Err" /\ IsTrimmedOf(result.msg, from_utf8_lossy(env.stdout)))
        /\ (~env.success /\ env.stdout = <<>>) =>
            (result.tag = "Err" /\ IsTrimmedOf(result.msg, from_utf8_lossy(env.stderr)))
        /\ (env.success /\ op.name \in PlainOps) =>
            (result.tag = "Ok" /\ IsTrimmedOf(result.val, from_utf8_lossy(env.stdout)))

\* stdout holds nothing but whitespace
Blank(bytes) == \A i \in 1..Len(bytes) : is_whitespace(bytes[i])

\* C7 (amended): on a non-zero exit the error is the trimmed stdout when
\* stdout holds more than whitespace, whatever stderr holds, and the trimmed
\* stderr when stdout is empty or only whitespace; on a zero exit the result
\* is Ok with the trimmed stdout.
C7_ErrorIsStdoutUnlessBlank ==
    ProcessExited =>
        /\ (~env.success /\ ~Blank(env.stdout)) =>
            (result.tag = "Err" /\ IsTrimmedOf(result.msg, from_utf8_lossy(env.stdout)))
        /\ (~env.success /\ Blank(env.stdout)) =>
            (result.tag = "Err" /\ IsTrimmedOf(result.msg, from_utf8_lossy(env.stderr)))
        /\ (env.success /\ op.name \in PlainOps) =>
            (result.tag = "Ok" /\ IsTrimmedOf(result.val, from_utf8_lossy(env.stdout)))

\* A failed run printed only a newline on stdout and a message on stderr
C7_Witness ==
    /\ ProcessExited
    /\ op.name = "reboot"
    /\ ~env.success
    /\ env.stdout = <<"\n">>
    /\ env.stderr = <<"e", "\n">>
    /\ result = Err(<<"e">>)

IsShellCommand(c) ==
    \/ c.cmd = "device_shell"
    \/ c.cmd = "process" /\ Len(c.args) >= 2 /\ c.args[Len(c.args) - 1] = <<"s", "h", "e", "l", "l">>

\* The command text a transport command hands to the remote shell:
\* adb_client sends the words joined by single spaces, the adb binary sends
\* its last argument
ShellText(c) == IF c.cmd = "device_shell" THEN join(c.args, <<" ">>) ELSE c.args[Len(c.args)]

ShellTexts(l) ==
    LET sent == SelectSeq(l, IsShellCommand) IN [i \in 1..Len(sent) |-> ShellText(sent[i])]

\* A device (Builtin) or the adb binary (System) is there to take the command
Reachable ==
    \/ backend = "System"
    \/ backend = "Builtin" /\ builtin_connect(device_serial, env).result.tag = "Ok"

\* C8: raw() hands the caller's action string to the remote shell as it is,
\* on both backends: one shell command whose text is the action string.
C8_RawIsVerbatim ==
    (Done /\ op.name = "raw" /\ Reachable) => ShellTexts(log) = <<op.action>>

HasId(u) == u.id.val # None

\* The ids of the printed users whose id text denotes a u16, in print order
PrintedIds(us) ==
    LET valid == SelectSeq(us, HasId) IN [i \in 1..Len(valid) |-> valid[i].id.val[1]]

\* C9: list_users skips the first line and returns, in input order, the id
\* of every later line whose id text (before the first ':', after removing
\* surrounding whitespace, a leading "UserInfo{", a trailing "running" with
\* the whitespace before it, and a trailing "}") is a valid u16; other lines
\* are dropped without failing the call.
C9_ListUsersParsesIds ==
    (Done /\ op.name = "list_users" /\ Answered) => result = Ok(PrintedIds(env.src))

C9_Witness ==
    /\ Done
    /\ op.name = "list_users"
    /\ Answered
    /\ Len(env.src) = 2
    /\ env.src[1].running = "spaced"
    /\ env.src[1].ws
    /\ result = Ok(<<0, 10>>)

HasTab(line) == \E i \in 1..Len(line) : line[i] = "\t"

\* The lines after the first
AfterFirst(lns) == [i \in 1..(Len(lns) - 1) |-> lns[i + 1]]

\* C10: devices() on the System backend skips the first output line and
\* returns, in line order, for every later line with a tab the pair (text
\* before the first tab, text after the first tab); lines without a tab
\* give nothing.
C10_DevicesParsesPairs ==
    (Done /\ op.name = "devices" /\ backend = "System" /\ Answered) =>
        LET tabbed == SelectSeq(AfterFirst(env.src), HasTab) IN
        /\ result.tag = "Ok"
        /\ Len(result.val) = Len(tabbed)
        /\ \A i \in 1..Len(tabbed) :
            /\ result.val[i][1] \o <<"\t">> \o result.val[i][2] = tabbed[i]
            /\ ~HasTab(result.val[i][1])

\* The first line looks like a device record and is skipped all the same;
\* the next line has two tabs and splits at the first
C10_Witness ==
    /\ Done
    /\ op.name = "devices"
    /\ backend = "System"
    /\ Answered
    /\ env.src = <<<<"S", "9", "\t", "d", "e", "v", "i", "c", "e">>, <<"A", "\t", "\t">>, <<"S", "1", "\t", "d", "e", "v", "i", "c", "e">>>>
    /\ result = Ok(<< <<<<"A">>, <<"\t">>>>, <<<<"S", "1">>, <<"d", "e", "v", "i", "c", "e">>>> >>)

\* The line begins with the eight bytes "package:"
HasPackPrefix(line) == Len(line) >= 8 /\ SubSeq(line, 1, 8) = <<"p", "a", "c", "k", "a", "g", "e", ":">>

\* The printed lines that begin with "package:", each without its first
\* eight bytes, in print order
PrintedPackages(lns) ==
    LET kept == SelectSeq(lns, HasPackPrefix) IN
    [i \in 1..Len(kept) |-> SubSeq(kept[i], 9, Len(kept[i]))]

FlagToken(f) ==
    CASE f = "IncludeUninstalled" -> <<"-", "u">>
      [] f = "OnlyEnabled" -> <<"-", "e">>
      [] f = "OnlyDisabled" -> <<"-", "d">>

UserIdText(n) ==
    CASE n = 0 -> <<"0">>
      [] n = 10 -> <<"1", "0">>
      [] n = 65535 -> <<"6", "5", "5", "3", "5">>

\* The words of `pm list packages -s [-u|-e|-d] [--user N]`
ListPackagesWords(flag, user_id) ==
    <<<<"p", "m">>, <<"l", "i", "s", "t">>, <<"p", "a", "c", "k", "a", "g", "e", "s">>, <<"-", "s">>>>
        \o (IF flag # None THEN <<FlagToken(flag[1])>> ELSE <<>>)
        \o (IF user_id # None THEN <<<<"-", "-", "u", "s", "e", "r">>, UserIdText(user_id[1])>> ELSE <<>>)

\* C12: for every optional flag and optional user id, list_packages_sys
\* issues one shell command, whose words are pm list packages -s, then the
\* flag token when a flag is given, then --user N when a user id is given,
\* separated by single spaces; -s is always there.
C12_ListPackagesCommandText ==
    (Done /\ op.name = "list_packages_sys" /\ Reachable) =>
        /\ ShellTexts(log) = <<join(ListPackagesWords(op.flag, op.user_id), <<" ">>)>>
        /\ \A i \in 1..Len(log) :
            log[i].cmd = "device_shell" => log[i].args = ListPackagesWords(op.flag, op.user_id)

\* A flag and a user id are both given
C12_Witness ==
    /\ Done
    /\ op.name = "list_packages_sys"
    /\ op.flag = Some("OnlyDisabled")
    /\ op.user_id = Some(10)
    /\ device_serial = None
    /\ log = <<Process(<<<<"s", "h", "e", "l", "l">>, <<"p", "m", " ", "l", "i", "s", "t", " ", "p", "a", "c", "k", "a", "g", "e", "s", " ", "-", "s", " ", "-", "d", " ", "-", "-", "u", "s", "e", "r", " ", "1", "0">>>>)>>

\* C13: the backend displays as "Builtin" and "System (adb)", the default
\* backend is Builtin, and a builder made with ACommand::new has the default
\* backend and keeps it.
C13_DisplayAndDefault ==
    /\ AdbBackend_fmt("Builtin") = <<"B", "u", "i", "l", "t", "i", "n">>
    /\ AdbBackend_fmt("System") = <<"S", "y", "s", "t", "e", "m", " ", "(", "a", "d", "b", ")">>
    /\ AdbBackend_default = "Builtin"
    /\ (Len(calls) >= 1 /\ calls[1].name = "new") => backend = "Builtin"
    /\ (Done /\ calls[1].name = "new") => \A i \in 1..Len(log) : log[i].cmd # "process"

\* A builder made with new() asked the ADB server for its version
C13_Witness ==
    /\ Done
    /\ calls = <<[name |-> "new"], [name |-> "version"]>>
    /\ backend = "Builtin"
    /\ log = <<ServerVersion>>

\* The serial given to shell(), once shell() was called
ShellCalled == Len(calls) >= 2 /\ calls[2].name = "shell"

\* The transport command is addressed to the device with this serial
AddressedTo(c, serial) ==
    \/ c.cmd = "device_shell" /\ c.device = serial
    \/ c.cmd = "process" /\ Len(c.args) = 4 /\ SubSeq(c.args, 1, 3) = <<<<"-", "s">>, serial, <<"s", "h", "e", "l", "l">>>>

\* The transport is there and, as far as the builder can see, the device
\* with this serial is attached
DeviceAttached(serial) ==
    \/ env.kind = "process" /\ env.spawned
    \/ env.kind = "server" /\ env.up /\ serial \in Identifiers(env.devices)

\* C14: after shell() with a non-empty serial the builder stores that serial
\* and every shell-stage and pm-stage operation is executed on the device
\* with that serial, on both backends: no command goes to another device,
\* and when the device is attached the command is sent to it.  After
\* shell() with an empty serial nothing is stored and the transport picks
\* the device: adb runs without -s, the ADB server hands out its device
\* without a check of the device list.
C14_SerialTargetsTheDevice ==
    ShellCalled =>
        LET serial == calls[2].device_serial IN
        /\ serial # <<>> =>
            /\ device_serial = Some(serial)
            /\ \A i \in 1..Len(log) :
                log[i].cmd \in {"device_shell", "process"} => AddressedTo(log[i], serial)
            /\ (Done /\ op.name # "raw" /\ DeviceAttached(serial)) =>
                \E i \in 1..Len(log) : AddressedTo(log[i], serial)
        /\ serial = <<>> =>
            /\ device_serial = None
            /\ \A i \in 1..Len(log) :
                /\ log[i].cmd # "server_devices"
                /\ log[i].cmd = "device_shell" =>
                    (Len(env.devices) = 1 /\ log[i].device = env.devices[1].identifier)
                /\ log[i].cmd = "process" =>
                    (Len(log[i].args) = 2 /\ log[i].args[1] = <<"s", "h", "e", "l", "l">>)

\* The backend the constructor call set
Constructed(c) == IF c.name = "new" THEN "Builtin" ELSE c.backend

\* Transport commands of each backend
BackendCommands(b) ==
    IF b = "Builtin" THEN {"server_version", "server_devices", "get_device", "device_shell"}
    ELSE {"process"}

\* C15: no step of a constructed builder changes its backend; shell() changes
\* at most the serial and pm() changes neither; every terminal operation
\* issues only transport commands of the backend the constructor was given.
C15_BackendIsFixed ==
    [][/\ stage \in {"root", "shell", "pm"} => backend' = backend
       /\ (stage = "root" /\ stage' = "shell") => UNCHANGED <<op, env, log, result>>
       /\ (stage = "shell" /\ stage' = "pm") =>
            UNCHANGED <<backend, device_serial, op, env, log, result>>
       /\ stage' = "done" =>
            /\ backend' = Constructed(calls'[1])
            /\ \A i \in 1..Len(log') : log'[i].cmd \in BackendCommands(Constructed(calls'[1]))]_vars

\* A builder made for System went through shell() and pm() and ran adb
C15_Witness ==
    /\ Done
    /\ calls = <<[name |-> "with_backend", backend |-> "System"],
                 [name |-> "shell", device_serial |-> <<"S", "1">>], [name |-> "pm"],
                 [name |-> "list_users"]>>
    /\ backend = "System"
    /\ Len(log) = 1
    /\ log[1].cmd = "process"

TerminalOps == {"devices", "version", "getprop", "reboot", "raw", "list_packages_sys", "list_users"}

\* The terminal operations among the calls made on the builder
Executed == {i \in 1..Len(calls) : calls[i].name \in TerminalOps}

\* C16: a builder executes at most one terminal operation, as the last call
\* made on it, after which the builder is gone; shell() and pm() are each
\* called at most once on it, since each consumes the value it is called on.
C16_BuilderIsConsumed ==
    /\ Cardinality(Executed) <= 1
    /\ Executed # {} <=> stage = "done"
    /\ Executed # {} => Executed = {Len(calls)}
    /\ Cardinality({i \in 1..Len(calls) : calls[i].name = "shell"}) <= 1
    /\ Cardinality({i \in 1..Len(calls) : calls[i].name = "pm"}) <= 1
    /\ Cardinality({i \in 1..Len(calls) : calls[i].name \in {"new", "with_backend"}})
            = (IF stage = "none" THEN 0 ELSE 1)

\* reboot() consumed the builder that shell() returned
C16_Witness ==
    /\ stage = "done"
    /\ calls = <<[name |-> "new"], [name |-> "shell", device_serial |-> <<>>], [name |-> "reboot"]>>
    /\ result.tag = "Ok"

----------------------------------------------------------------------------
(* Properties of the URL conversion, stated on positions of the description *)

\* The word w stands in t at position i
HasAt(t, i, w) == i + Len(w) - 1 <= Len(t) /\ SubSeq(t, i, i + Len(w) - 1) = w

SchemeAt(t, i) == HasAt(t, i, <<"h", "t", "t", "p", ":", "/", "/">>) \/ HasAt(t, i, <<"h", "t", "t", "p", "s", ":", "/", "/">>)

ContainsScheme(t) == \E i \in 1..Len(t) : SchemeAt(t, i)

\* No whitespace at the positions j..i-1
NoSpaceBetween(t, j, i) == \A k \in j..(i - 1) : ~is_whitespace(t[k])

\* A URL starts at i: a scheme stands there, and no earlier scheme reaches
\* i without whitespace in between
UrlStart(t, i) ==
    /\ SchemeAt(t, i)
    /\ ~\E j \in 1..(i - 1) : NoSpaceBetween(t, j, i) /\ SchemeAt(t, j)

\* The last position of the run from i to the next whitespace or the end
RunLast(t, i) ==
    CHOOSE e \in i..Len(t) :
        NoSpaceBetween(t, i, e + 1) /\ (e = Len(t) \/ is_whitespace(t[e + 1]))

TrailingPunctuation == {")", ",", ".", ";", ":", "!", "?"}

\* The last position of the URL that starts at i when every trailing
\* punctuation character is taken off the run
UrlLastEveryPunct(t, i) ==
    LET e == RunLast(t, i) IN
    CHOOSE c \in i..e :
        /\ t[c] \notin TrailingPunctuation
        /\ \A k \in (c + 1)..e : t[k] \in TrailingPunctuation

\* Position c of the URL that starts at i is not taken off: it is no
\* trailing punctuation, or it is a ")" with a "(" somewhere before it
StaysInUrl(t, i, c) ==
    \/ t[c] \notin TrailingPunctuation
    \/ t[c] = ")" /\ \E k \in i..c : t[k] = "("

\* The last position of the URL that starts at i when a ")" that closes a
\* "(" of the URL stops the removal
UrlLastBalanced(t, i) ==
    LET e == RunLast(t, i) IN
    CHOOSE c \in i..e :
        /\ StaysInUrl(t, i, c)
        /\ \A k \in (c + 1)..e : ~StaysInUrl(t, i, k)

\* The description with every URL turned into a link: position by position,
\* the start of a URL gives the link, the rest of the URL gives nothing,
\* every other character gives itself
Linked(t, UrlLast(_, _)) ==
    LET starts == {i \in 1..Len(t) : UrlStart(t, i)}
        last == [i \in starts |-> UrlLast(t, i)]
    IN  Concat([k \in 1..Len(t) |->
            IF k \in starts
            THEN LET url == SubSeq(t, k, last[k]) IN
                 <<"[">> \o url \o <<"]", "(">> \o url \o <<")">>
            ELSE IF \E i \in starts : i < k /\ k <= last[i]
            THEN <<>>
            ELSE <<t[k]>>])

\* C17 (as stated): a description without "http://" and "https://" is
\* returned unchanged; otherwise each URL, the run from the scheme to the
\* next whitespace or the end minus its trailing ) , . ; : ! ? characters,
\* becomes [url](url), and all other text, the removed punctuation
\* included, stays in place.
C17_UrlsBecomeLinks ==
    md_pc = "done" =>
        /\ ~ContainsScheme(description) => markdown_text = description
        /\ markdown_text = Linked(description, UrlLastEveryPunct)

\* C17 (amended): as above, except that the removal of trailing punctuation
\* stops at a ")" when the URL up to it contains a "(": that ")" and what
\* precedes it stay in the URL.
C17_UrlsBecomeLinksBalanced ==
    md_pc = "done" =>
        /\ ~ContainsScheme(description) => markdown_text = description
        /\ markdown_text = Linked(description, UrlLastBalanced)

\* The ")" closes a "(" of the URL and stays; the "." after it is moved
\* behind the link
C17_Witness ==
    /\ md_pc = "done"
    /\ description = <<"h", "t", "t", "p", ":", "/", "/", "(", ")", ".">>
    /\ markdown_text = <<"[", "h", "t", "t", "p", ":", "/", "/", "(", ")", "]", "(", "h", "t", "t", "p", ":", "/", "/", "(", ")", ")", ".">>

====
